---- MODULE Spec2Model ----
(***************************************************************************)
(* Model of visual_data_discover.py: the three discoverers                 *)
(* PhotoDiscovery, ExifPhotoDiscoverer and VideoDiscoverer.                *)
(*                                                                         *)
(* A character is its Unicode code point and a file name or a path is a    *)
(* sequence of characters, so that os.path.splitext, os.path.join,         *)
(* os.path.basename, str.lower, str.isdigit, the `in` substring test and   *)
(* int() are computed the way Python computes them.  The file system is    *)
(* the state: a directory is a path mapped to its listing, a sequence of   *)
(* files in the order os.listdir yields them; a file is its name and the   *)
(* values the exif accessors produce for it.  That order is arbitrary: it  *)
(* may change between two calls while the files stay as they are.          *)
(***************************************************************************)
EXTENDS Integers, Sequences, FiniteSets, TLC

VARIABLES dirs, last

vars == <<dirs, last>>

\* The longest directory listing drawn by Init.
MaxFiles == 3

\* Python's None, as a value of a field that otherwise holds a natural.
None == -1

-----------------------------------------------------------------------------
(* Characters and strings                                                  *)

\* The code points of DIGIT ZERO of the decimal digits outside ASCII (general
\* category Nd, Unicode 14.0): each is followed by its DIGIT ONE to DIGIT NINE.
DecimalZeros ==
    {1632, 1776, 1984, 2406, 2534, 2662, 2790, 2918, 3046, 3174, 3302,
     3430, 3558, 3664, 3792, 3872, 4160, 4240, 6112, 6160, 6470, 6608,
     6784, 6800, 6992, 7088, 7232, 7248, 42528, 43216, 43264, 43472, 43504,
     43600, 44016, 65296, 66720, 68912, 69734, 69872, 69942, 70096, 70384,
     70736, 70864, 71248, 71360, 71472, 71904, 72016, 72784, 73040, 73120,
     92768, 92864, 93008, 120782, 120792, 120802, 120812, 120822, 123200, 123632,
     125264, 130032}

\* The ranges of the characters that are digits without being decimal digits
\* (superscripts, subscripts, circled and parenthesized digits, ...).
DigitOnlyRanges ==
    {<<178, 179>>, <<185, 185>>, <<4969, 4977>>, <<6618, 6618>>,
     <<8304, 8304>>, <<8308, 8313>>, <<8320, 8329>>, <<9312, 9320>>,
     <<9332, 9340>>, <<9352, 9360>>, <<9450, 9450>>, <<9461, 9469>>,
     <<9471, 9471>>, <<10102, 10110>>, <<10112, 10120>>, <<10122, 10130>>,
     <<68160, 68163>>, <<69216, 69224>>, <<69714, 69722>>,
     <<127232, 127242>>}

\* str.isdecimal on one character: what int() accepts as a digit.
IsDecimal(c) ==
    IF c < 128 THEN c \in 48..57
    ELSE \E z \in DecimalZeros : c \in z..(z + 9)

\* str.isdigit on one character.
IsDigit(c) ==
    \/ IsDecimal(c)
    \/ c >= 128 /\ \E r \in DigitOnlyRanges : c \in r[1]..r[2]

\* The value of one decimal digit character.
DecimalValue(c) ==
    IF c < 128 THEN c - 48
    ELSE c - (CHOOSE z \in DecimalZeros : c \in z..(z + 9))

\* sub in s
Contains(s, sub) ==
    \E i \in 0..(Len(s) - Len(sub)) :
        \A j \in 1..Len(sub) : s[i + j] = sub[j]

\* s.rfind(c), 1-based; 0 when c does not occur.
RFind(s, c) ==
    IF \E i \in 1..Len(s) : s[i] = c
    THEN CHOOSE i \in 1..Len(s) : s[i] = c /\ \A j \in (i + 1)..Len(s) : s[j] # c
    ELSE 0

\* os.path.splitext: the extension starts at the last dot (46) of the last
\* path component, unless only dots precede it in that component.
SplitExt(p) ==
    LET sepIndex == RFind(p, 47)
        dotIndex == RFind(p, 46)
    IN  IF dotIndex > sepIndex
           /\ \E k \in (sepIndex + 1)..(dotIndex - 1) : p[k] # 46
        THEN <<SubSeq(p, 1, dotIndex - 1), SubSeq(p, dotIndex, Len(p))>>
        ELSE <<p, <<>>>>

\* os.path.join of two components; 47 is the separator "/".
Join(a, b) ==
    IF Len(b) > 0 /\ b[1] = 47 THEN b
    ELSE IF Len(a) = 0 \/ a[Len(a)] = 47 THEN a \o b
    ELSE a \o <<47>> \o b

\* os.path.basename
Basename(p) == SubSeq(p, RFind(p, 47) + 1, Len(p))

\* filter(str.isdigit, s), joined
DigitsOf(s) == SelectSeq(s, IsDigit)

\* int(s) raises ValueError: s is empty or holds a character that is no
\* decimal digit.
IntRaises(s) == Len(s) = 0 \/ \E i \in 1..Len(s) : ~IsDecimal(s[i])

\* A Python int of any size: its decimal digits, most significant first,
\* without leading zeros (0 is the empty sequence).
StripZeros(d) ==
    LET nz == {i \in 1..Len(d) : d[i] # 0}
    IN  IF nz = {} THEN <<>>
        ELSE SubSeq(d, CHOOSE i \in nz : \A j \in nz : i <= j, Len(d))

\* int(s) of a string of decimal digits.
ToInt(s) == StripZeros([i \in 1..Len(s) |-> DecimalValue(s[i])])

\* The Python int of a natural number of the model.
RECURSIVE Decimal(_)
Decimal(n) == IF n <= 0 THEN <<>> ELSE Decimal(n \div 10) \o <<n % 10>>

\* a <= b on Python ints.
IntLE(a, b) ==
    \/ Len(a) < Len(b)
    \/ /\ Len(a) = Len(b)
       /\ \/ a = b
          \/ \E i \in 1..Len(a) :
                 a[i] < b[i] /\ \A j \in 1..(i - 1) : a[j] = b[j]

-----------------------------------------------------------------------------
(* Collaborators: the record types and the exif accessors                  *)

\* osc_models.Photo(path): an attribute container, every field but the path unset.
Photo(path) ==
    [kind |-> "Photo", path |-> path, index |-> None,
     gps_timestamp |-> None, latitude |-> None, longitude |-> None,
     exif_timestamp |-> None, gps_speed |-> None, gps_altitude |-> None,
     gps_compass |-> None]

\* osc_models.Video(path)
Video(path) == [kind |-> "Video", path |-> path, index |-> None]

\* What _photo_from_path returns for a dropped candidate (Python's None).
NoRecord == [kind |-> "None"]

\* Truth value of a record-or-None, as `if photo:` tests it.
IsRecord(r) == r.kind # "None"

\* Truth value of a number-or-None, as `not x` tests it: None and 0 are false.
Truthy(x) == x # None /\ x # 0

\* os.path.isdir
IsDir(path) == path \in DOMAIN dirs

\* os.listdir: the names of the entries, in the order the directory lists
\* them in at the time of the call.
ListDir(path) == [i \in 1..Len(dirs[path]) |-> dirs[path][i].name]

\* exif_processing.all_tags(path): the tag mapping of the file at path.
AllTags(path) ==
    LET d == CHOOSE d \in DOMAIN dirs :
                 \E i \in 1..Len(dirs[d]) : Join(d, dirs[d][i].name) = path
        i == CHOOSE i \in 1..Len(dirs[d]) : Join(d, dirs[d][i].name) = path
    IN  dirs[d][i].tags

\* The derived accessors of exif_processing: a value, or None when absent.
gps_timestamp(tags_data) == tags_data.gps_timestamp
gps_latitude(tags_data) == tags_data.latitude
gps_longitude(tags_data) == tags_data.longitude
timestamp(tags_data) == tags_data.timestamp
gps_speed(tags_data) == tags_data.gps_speed
gps_altitude(tags_data) == tags_data.gps_altitude
gps_compass(tags_data) == tags_data.gps_compass

-----------------------------------------------------------------------------
(* list.sort(key=...)                                                      *)

\* Inserts the pair x = <<key, item>> into the sorted sequence s behind every
\* pair whose key is not greater: equal keys keep their order.
Insert(s, x) ==
    LET pos == Cardinality({i \in 1..Len(s) : IntLE(s[i][1], x[1])})
    IN  SubSeq(s, 1, pos) \o <<x>> \o SubSeq(s, pos + 1, Len(s))

RECURSIVE SortPairs(_)
SortPairs(s) ==
    IF Len(s) = 0 THEN <<>>
    ELSE Insert(SortPairs(SubSeq(s, 1, Len(s) - 1)), s[Len(s)])

\* list.sort(key=...) once every key is computed: ascending by key, stable.
SortByKeys(list, keys) ==
    LET sorted == SortPairs([i \in 1..Len(list) |-> <<keys[i], list[i]>>])
    IN  [i \in 1..Len(list) |-> sorted[i][2]]

-----------------------------------------------------------------------------
(* PhotoDiscovery and ExifPhotoDiscoverer                                  *)

\* "thumb" in file_name.lower().  str.lower yields t, h, u, m or b only from
\* those letters in either case, and one character each, so the test is that
\* of the name with T, H, U, M and B lowered.
ThumbInLower(file_name) ==
    LET lowered(c) == IF c \in {84, 72, 85, 77, 66} THEN c + 32 ELSE c
    IN  Contains([i \in 1..Len(file_name) |-> lowered(file_name[i])],
                 <<116, 104, 117, 109, 98>>)

\* As IsPhotoCandidate, with the name tested without str.lower.
IsPhotoCandidateCaseSensitive(file_path) ==
    LET file_name == SplitExt(file_path)[1]
        file_extension == SplitExt(file_path)[2]
    IN  /\ \/ Contains(file_extension, <<106, 112, 103>>)
           \/ Contains(file_extension, <<106, 112, 101, 103>>)
        /\ ~Contains(file_name, <<116, 104, 117, 109, 98>>)

\* The extension and name test of the photo policies: "jpg" or "jpeg" in the
\* extension, and no "thumb" in the lowered name.
IsPhotoCandidate(file_path) ==
    LET file_name == SplitExt(file_path)[1]
        file_extension == SplitExt(file_path)[2]
    IN  /\ \/ Contains(file_extension, <<106, 112, 103>>)
           \/ Contains(file_extension, <<106, 112, 101, 103>>)
        /\ ~ThumbInLower(file_name)

\* PhotoDiscovery._photo_from_path
PlainPhotoFromPath(path) == Photo(path)

\* As MandatoryMissing, with the latitude test left out.
MandatoryMissingNoLatitude(photo) ==
    \/ ~Truthy(photo.longitude)
    \/ ~Truthy(photo.gps_timestamp)

\* The mandatory-field test of ExifPhotoDiscoverer._photo_from_path.
MandatoryMissing(photo) ==
    \/ ~Truthy(photo.latitude)
    \/ ~Truthy(photo.longitude)
    \/ ~Truthy(photo.gps_timestamp)

\* ExifPhotoDiscoverer._photo_from_path
ExifPhotoFromPath(path) ==
    LET tags_data == AllTags(path)
        required == [Photo(path) EXCEPT
                        !.gps_timestamp = gps_timestamp(tags_data),
                        !.latitude = gps_latitude(tags_data),
                        !.longitude = gps_longitude(tags_data)]
    IN  IF MandatoryMissing(required) THEN NoRecord
        ELSE [required EXCEPT
                 !.exif_timestamp = timestamp(tags_data),
                 !.gps_speed = gps_speed(tags_data),
                 !.gps_altitude = gps_altitude(tags_data),
                 !.gps_compass = gps_compass(tags_data)]

\* cls._photo_from_path, dispatched on the class.
PhotoFromPath(cls, path) ==
    IF cls = "ExifPhotoDiscoverer" THEN ExifPhotoFromPath(path)
    ELSE PlainPhotoFromPath(path)

\* As KeyDigits, over the whole path instead of its base name.
KeyDigitsOfPath(path) == DigitsOf(path)

\* The digit characters of the base name of a path, in order.
KeyDigits(path) == DigitsOf(Basename(path))

\* The sort key of PhotoDiscovery._sort_photo_list and VideoDiscoverer._sort_list.
DigitKey(path) == ToInt(KeyDigits(path))

\* The key raises ValueError: int() rejects the digit characters of the base
\* name (there is none, or one of them is no decimal digit).
DigitKeyRaises(path) == IntRaises(KeyDigits(path))

\* As TimestampKey, with the key _sort_photo_list has in the parent class.
TimestampKeyInherited(photo) == DigitKey(photo.path)

\* The sort key of ExifPhotoDiscoverer._sort_photo_list.
TimestampKey(photo) == Decimal(photo.gps_timestamp)

\* cls._sort_photo_list: the sorted list, or the exception the key raises.
SortPhotoList(cls, photos) ==
    IF cls = "ExifPhotoDiscoverer"
    THEN [raised |-> "none",
          list |-> SortByKeys(photos,
                      [i \in 1..Len(photos) |-> TimestampKey(photos[i])])]
    ELSE IF \E i \in 1..Len(photos) : DigitKeyRaises(photos[i].path)
    THEN [raised |-> "ValueError", list |-> photos]
    ELSE [raised |-> "none",
          list |-> SortByKeys(photos,
                      [i \in 1..Len(photos) |-> DigitKey(photos[i].path)])]

\* As AssignIndex, counting from 1.
AssignIndexFromOne(list) == [i \in 1..Len(list) |-> [list[i] EXCEPT !.index = i]]

\* The index loop: index 0, 1, 2, ... in list order.
AssignIndex(list) == [i \in 1..Len(list) |-> [list[i] EXCEPT !.index = i - 1]]

\* photos = [] at the start of the scan.
NewPhotoList == <<>>

\* The outcome of one call of discover, with the collaborator calls it made.
Outcome(cls, path, raised, records, tag, listed, built, extracted, sorted) ==
    [cls |-> cls, path |-> path, raised |-> raised, records |-> records,
     tag |-> tag, listed |-> listed, built |-> built, extracted |-> extracted,
     sorted |-> sorted]

\* As NotADirectory, without the test: os.listdir is called and raises.
NotADirectoryListed(cls, path, tag) ==
    Outcome(cls, path, "FileNotFoundError", <<>>, "none", 1, 0, 0, 0)

\* The early return for a path that is no directory: nothing is listed, built,
\* extracted or sorted.
NotADirectory(cls, path, tag) == Outcome(cls, path, "none", <<>>, tag, 0, 0, 0, 0)

\* PhotoDiscovery.discover, inherited by ExifPhotoDiscoverer.
PhotoDiscover(cls, path) ==
    IF ~IsDir(path)
    THEN NotADirectory(cls, path, "photo")
    ELSE
        LET files == ListDir(path)
            isCand(i) == IsPhotoCandidate(files[i])
            made == [i \in 1..Len(files) |->
                        IF isCand(i) THEN PhotoFromPath(cls, Join(path, files[i]))
                        ELSE NoRecord]
            photos == NewPhotoList \o SelectSeq(made, IsRecord)
            ncand == Cardinality({i \in 1..Len(files) : isCand(i)})
            nextr == IF cls = "ExifPhotoDiscoverer" THEN ncand ELSE 0
            srt == SortPhotoList(cls, photos)
        IN  IF srt.raised # "none"
            THEN Outcome(cls, path, srt.raised, <<>>, "none", 1, ncand, nextr, 1)
            ELSE Outcome(cls, path, "none", AssignIndex(srt.list), "photo",
                         1, ncand, nextr, 1)


\* videos = [] at the start of the scan.
NewVideoList == <<>>

\* The extension test of the video policy: "mp4" in the extension.
IsVideoCandidate(file_path) ==
    LET file_extension == SplitExt(file_path)[2]
    IN  Contains(file_extension, <<109, 112, 52>>)

\* VideoDiscoverer._sort_list: the sorted list, or the exception the key raises.
SortList(videos) ==
    IF \E i \in 1..Len(videos) : DigitKeyRaises(videos[i].path)
    THEN [raised |-> "ValueError", list |-> videos]
    ELSE [raised |-> "none",
          list |-> SortByKeys(videos,
                      [i \in 1..Len(videos) |-> DigitKey(videos[i].path)])]

\* VideoDiscoverer.discover
VideoDiscover(cls, path) ==
    IF ~IsDir(path)
    THEN NotADirectory(cls, path, "video")
    ELSE
        LET files == ListDir(path)
            isCand(i) == IsVideoCandidate(files[i])
            made == [i \in 1..Len(files) |->
                        IF isCand(i) THEN Video(Join(path, files[i])) ELSE NoRecord]
            videos == NewVideoList \o SelectSeq(made, IsRecord)
            ncand == Cardinality({i \in 1..Len(files) : isCand(i)})
            srt == SortList(videos)
        IN  IF srt.raised # "none"
            THEN Outcome(cls, path, srt.raised, <<>>, "none", 1, ncand, 0, 1)
            ELSE Outcome(cls, path, "none", AssignIndex(srt.list), "video",
                         1, ncand, 0, 1)

-----------------------------------------------------------------------------
(* The inputs: directories, file names and tag values                      *)

\* /d7, a directory that exists; its name holds a digit.
DataDir == <<47, 100, 55>>

\* /no, a path that denotes no directory.
MissingDir == <<47, 110, 111>>

Paths == {DataDir, MissingDir}

\* img_1.jpg
Img1 ==
    <<105, 109, 103, 95, 49, 46, 106, 112, 103>>

\* img_2.jpg
Img2 ==
    <<105, 109, 103, 95, 50, 46, 106, 112, 103>>

\* img_10.jpg
Img10 ==
    <<105, 109, 103, 95, 49, 48, 46, 106, 112, 103>>

\* img_01.jpeg
Img01 ==
    <<105, 109, 103, 95, 48, 49, 46, 106, 112, 101, 103>>

\* thumb_5.jpg
Thumb5 ==
    <<116, 104, 117, 109, 98, 95, 53, 46, 106, 112, 103>>

\* IMG_THUMB_6.jpg
UpperThumb6 ==
    <<73, 77, 71, 95, 84, 72, 85, 77, 66, 95, 54, 46, 106, 112, 103>>

\* clip_3.mp4
Clip3Mp4 ==
    <<99, 108, 105, 112, 95, 51, 46, 109, 112, 52>>

\* VID_20190101_123456.mp4: a key beyond 32 bits
VidLong ==
    <<86, 73, 68, 95, 50, 48, 49, 57, 48, 49, 48, 49, 95, 49, 50, 51, 52,
      53, 54, 46, 109, 112, 52>>

\* clip(U+00B2 SUPERSCRIPT TWO).mp4: a digit int() rejects
ClipSuper2 ==
    <<99, 108, 105, 112, 178, 46, 109, 112, 52>>

\* clip_3.jpg
Clip3Jpg ==
    <<99, 108, 105, 112, 95, 51, 46, 106, 112, 103>>

\* pic.jpg
Pic ==
    <<112, 105, 99, 46, 106, 112, 103>>

\* img_(U+0663 ARABIC-INDIC DIGIT THREE).jpg: a decimal digit outside ASCII
ImgArabic3 ==
    <<105, 109, 103, 95, 1635, 46, 106, 112, 103>>

\* The values the accessors yield for one file; opt is the value of each of
\* the four optional ones.
Tags(ts, lat, lon, opt) ==
    [gps_timestamp |-> ts, latitude |-> lat, longitude |-> lon,
     timestamp |-> opt, gps_speed |-> opt, gps_altitude |-> opt,
     gps_compass |-> opt]

File(name, tags) == [name |-> name, tags |-> tags]

\* The files a directory may hold: every name with one or more tag mappings
\* (complete, without optional values, without one mandatory value, with a
\* mandatory value of 0, without any tag).
FileChoices ==
    {File(Img1, Tags(2, 4, 6, 5)), File(Img1, Tags(2, None, 6, 5)),
     File(Img1, Tags(2, 0, 6, 5)),
     File(Img2, Tags(1, 4, 6, 0)),
     File(Img10, Tags(1, 3, 6, None)), File(Img10, Tags(None, 4, 6, 5)),
     File(Img01, Tags(2, 4, None, 5)),
     File(Thumb5, Tags(1, 4, 6, 5)),
     File(UpperThumb6, Tags(2, 4, 6, 5)),
     File(Clip3Mp4, Tags(None, None, None, None)),
     File(VidLong, Tags(None, None, None, None)),
     File(ClipSuper2, Tags(None, None, None, None)),
     File(Clip3Jpg, Tags(3, 4, 0, 5)),
     File(Pic, Tags(1, 4, 6, 5)),
     File(ImgArabic3, Tags(3, 4, 6, 5))}

\* The listings of at most MaxFiles files: no name occurs twice.
Listings ==
    {l \in UNION {[1..n -> FileChoices] : n \in 0..MaxFiles} :
        \A i, j \in 1..Len(l) : i # j => l[i].name # l[j].name}

-----------------------------------------------------------------------------
(* The state machine                                                       *)

Classes == {"PhotoDiscovery", "ExifPhotoDiscoverer", "VideoDiscoverer"}

\* No call of discover yet.
NoCall == Outcome("none", <<>>, "none", <<>>, "none", 0, 0, 0, 0)

\* The directory holds any listing; discover has not been called.
Init ==
    /\ \E l \in Listings : dirs = (DataDir :> l)
    /\ last = NoCall

\* PhotoDiscovery.discover(path)
PhotoDiscovery_discover ==
    \E path \in Paths :
        /\ last' = PhotoDiscover("PhotoDiscovery", path)
        /\ UNCHANGED dirs

\* ExifPhotoDiscoverer.discover(path)
ExifPhotoDiscoverer_discover ==
    \E path \in Paths :
        /\ last' = PhotoDiscover("ExifPhotoDiscoverer", path)
        /\ UNCHANGED dirs

\* VideoDiscoverer.discover(path)
VideoDiscoverer_discover ==
    \E path \in Paths :
        /\ last' = VideoDiscover("VideoDiscoverer", path)
        /\ UNCHANGED dirs

\* The orders a set of files can be listed in.
RECURSIVE Orders(_)
Orders(files) ==
    IF files = {} THEN {<<>>}
    ELSE UNION {{<<f>> \o l : l \in Orders(files \ {f})} : f \in files}

\* os.listdir returns the entries in arbitrary order: the directory comes to
\* list its files in another order, with no file added, removed or changed.
Relist ==
    \E path \in DOMAIN dirs :
        \E l \in Orders({dirs[path][k] : k \in 1..Len(dirs[path])}) :
            /\ l # dirs[path]
            /\ dirs' = [dirs EXCEPT ![path] = l]
            /\ UNCHANGED last

Next ==
    \/ PhotoDiscovery_discover
    \/ ExifPhotoDiscoverer_discover
    \/ VideoDiscoverer_discover
    \/ Relist

Spec == Init /\ [][Next]_vars

-----------------------------------------------------------------------------
(* Properties                                                              *)

\* discover has been called.
Called == last.cls # "none"

\* The last call returned (it did not raise).
Returned == Called /\ last.raised = "none"

\* The files of the directory the last call was given.
Listed == IF IsDir(last.path) THEN dirs[last.path] ELSE <<>>

\* The names of those files.
ListedNames == {Listed[k].name : k \in 1..Len(Listed)}

\* The path the last call builds for a listed file.
PathOf(f) == Join(last.path, f.name)

\* The last call returned a record for the listed file f.
HasRecord(f) == \E i \in 1..Len(last.records) : last.records[i].path = PathOf(f)

\* The listed file a returned record was built from.
FileOf(r) == Listed[CHOOSE k \in 1..Len(Listed) : PathOf(Listed[k]) = r.path]

\* The integer spelled by the digit characters of a file name.
NameValue(name) == ToInt(DigitsOf(name))

\* The returned records i and j stand in ascending order of that integer.
NameOrdered(i, j) ==
    IntLE(NameValue(FileOf(last.records[i]).name),
          NameValue(FileOf(last.records[j]).name))

\* The paths of the returned records, in order.
ReturnedPaths == [i \in 1..Len(last.records) |-> last.records[i].path]

\* C1: whenever discover returns, under any of the three policies, the record
\* at position i of the returned list has index i, so the indices are exactly
\* 0, 1, ..., N-1.
C1_IndexContiguous ==
    Returned =>
        /\ \A i \in 1..Len(last.records) : last.records[i].index = i - 1
        /\ {last.records[i].index : i \in 1..Len(last.records)}
               = 0..(Len(last.records) - 1)

\* Plain discovery returned three records of different sort keys, the first
\* of them not the first candidate of the listing.
C1_Witness ==
    /\ Returned
    /\ last.cls = "PhotoDiscovery"
    /\ Len(last.records) = 3
    /\ \A i, j \in 1..3 : i < j => ~NameOrdered(j, i)
    /\ last.records[1].path # PathOf(Listed[1])
    /\ last.records[3].index = 2

\* C2: every record ExifPhotoDiscoverer.discover returns has latitude,
\* longitude and gps_timestamp set, and no record is returned for a file whose
\* tags lack one of the three.
C2_MandatoryPresent ==
    (Returned /\ last.cls = "ExifPhotoDiscoverer") =>
        /\ \A i \in 1..Len(last.records) :
               /\ last.records[i].latitude # None
               /\ last.records[i].longitude # None
               /\ last.records[i].gps_timestamp # None
        /\ \A k \in 1..Len(Listed) :
               (\/ Listed[k].tags.latitude = None
                \/ Listed[k].tags.longitude = None
                \/ Listed[k].tags.gps_timestamp = None) => ~HasRecord(Listed[k])

\* Metadata-validated discovery returned a record while the directory holds a
\* candidate with GPS timestamp and longitude but no latitude.
C2_Witness ==
    /\ Returned
    /\ last.cls = "ExifPhotoDiscoverer"
    /\ Len(last.records) > 0
    /\ \E k \in 1..Len(Listed) :
           /\ IsPhotoCandidate(Listed[k].name)
           /\ Listed[k].tags.latitude = None
           /\ Listed[k].tags.longitude # None
           /\ Listed[k].tags.gps_timestamp # None

\* C3: the records PhotoDiscovery.discover returns are in ascending order of
\* the integer spelled by the digits of the file name; a directory holding
\* img_2.jpg, img_10.jpg and img_1.jpg yields img_1.jpg, img_2.jpg, img_10.jpg
\* with indices 0, 1, 2.
C3_DigitOrder ==
    (Returned /\ last.cls = "PhotoDiscovery") =>
        /\ \A i, j \in 1..Len(last.records) :
               i < j => NameOrdered(i, j)
        /\ (IsDir(last.path) /\ ListedNames = {Img1, Img2, Img10}) =>
               /\ ReturnedPaths = <<Join(last.path, Img1), Join(last.path, Img2),
                                    Join(last.path, Img10)>>
               /\ \A i \in 1..3 : last.records[i].index = i - 1

\* Plain discovery ran on a directory listed as img_2.jpg, img_10.jpg,
\* img_1.jpg.
C3_Witness ==
    /\ Returned
    /\ last.cls = "PhotoDiscovery"
    /\ [k \in 1..Len(Listed) |-> Listed[k].name] = <<Img2, Img10, Img1>>
    /\ last.records[1].path = Join(DataDir, Img1)

\* C4: the records ExifPhotoDiscoverer.discover returns carry the GPS
\* timestamp of their file, and a record with a smaller timestamp stands
\* before, and has a smaller index than, a record with a greater one.
C4_TimestampOrder ==
    (Returned /\ last.cls = "ExifPhotoDiscoverer") =>
        /\ \A i \in 1..Len(last.records) :
               last.records[i].gps_timestamp
                   = FileOf(last.records[i]).tags.gps_timestamp
        /\ \A i, j \in 1..Len(last.records) :
               last.records[i].gps_timestamp < last.records[j].gps_timestamp
                   => i < j /\ last.records[i].index < last.records[j].index
        /\ (Len(last.records) = 2
            /\ last.records[1].gps_timestamp # last.records[2].gps_timestamp)
               => last.records[1].index = 0 /\ last.records[2].index = 1

\* Metadata-validated discovery returned two records whose files the listing
\* yields in descending timestamp order.
C4_Witness ==
    /\ Returned
    /\ last.cls = "ExifPhotoDiscoverer"
    /\ Len(last.records) = 2
    /\ \E a, b \in 1..Len(Listed) :
           /\ a < b
           /\ HasRecord(Listed[a])
           /\ HasRecord(Listed[b])
           /\ Listed[a].tags.gps_timestamp > Listed[b].tags.gps_timestamp

\* C5: a call on a path that is no directory raises nothing and returns the
\* empty list with the tag of the policy, without listing, building,
\* extracting or sorting.
C5_MissingDirectory ==
    (Called /\ ~IsDir(last.path)) =>
        /\ last.raised = "none"
        /\ last.records = <<>>
        /\ last.tag = (IF last.cls = "VideoDiscoverer" THEN "video" ELSE "photo")
        /\ last.listed = 0
        /\ last.built = 0
        /\ last.extracted = 0
        /\ last.sorted = 0

\* Metadata-validated discovery was called on the missing path while the
\* directory that exists holds files.
C5_Witness ==
    /\ Called
    /\ last.cls = "ExifPhotoDiscoverer"
    /\ last.path = MissingDir
    /\ Len(dirs[DataDir]) > 0

\* C6: a call on an existing directory raises nothing, whatever the names and
\* tags of its files.
C6_NoExceptionEscapes ==
    (Called /\ IsDir(last.path)) => last.raised = "none"

\* C7: no record of a photo policy is built from a file whose name without
\* extension contains "thumb" in any letter case.
C7_NoThumb ==
    (Returned /\ last.cls \in {"PhotoDiscovery", "ExifPhotoDiscoverer"}) =>
        \A k \in 1..Len(Listed) :
            ThumbInLower(SplitExt(Listed[k].name)[1]) => ~HasRecord(Listed[k])

\* A photo policy returned a record from a directory that also holds
\* thumb_5.jpg and IMG_THUMB_6.jpg.
C7_Witness ==
    /\ Returned
    /\ last.cls \in {"PhotoDiscovery", "ExifPhotoDiscoverer"}
    /\ Len(last.records) > 0
    /\ {Thumb5, UpperThumb6} \subseteq ListedNames

C9_VideoAndPhotoApart ==
    (Called /\ IsDir(last.path) /\ {Clip3Mp4, Clip3Jpg} \subseteq ListedNames) =>
        /\ last.cls = "VideoDiscoverer" =>
               /\ Join(last.path, Clip3Mp4) \in {ReturnedPaths[i] : i \in 1..Len(ReturnedPaths)}
               /\ Join(last.path, Clip3Jpg) \notin {ReturnedPaths[i] : i \in 1..Len(ReturnedPaths)}
               /\ last.tag = "video"
               /\ \A i \in 1..Len(last.records) : last.records[i].kind = "Video"
        /\ last.cls = "PhotoDiscovery" =>
               /\ Join(last.path, Clip3Jpg) \in {ReturnedPaths[i] : i \in 1..Len(ReturnedPaths)}
               /\ Join(last.path, Clip3Mp4) \notin {ReturnedPaths[i] : i \in 1..Len(ReturnedPaths)}
               /\ last.tag = "photo"
               /\ \A i \in 1..Len(last.records) : last.records[i].kind = "Photo"

\* C10: ExifPhotoDiscoverer returns a record for every candidate whose tags
\* yield a GPS timestamp, a latitude and a longitude, whatever their values.
C10_CompleteKept ==
    (Called /\ last.cls = "ExifPhotoDiscoverer" /\ IsDir(last.path)) =>
        \A k \in 1..Len(Listed) :
            (/\ IsPhotoCandidate(Listed[k].name)
             /\ Listed[k].tags.gps_timestamp # None
             /\ Listed[k].tags.latitude # None
             /\ Listed[k].tags.longitude # None) => HasRecord(Listed[k])

====
